---- MODULE Spec2Model ----
(***************************************************************************)
(* Model of plugins/modules/xcat_image.py: one run of run_xcat_module is   *)
(* a sequential process that talks to the xCAT control plane over REST.    *)
(* One invocation of plugins/modules/xcat_node.py is the variable node.    *)
(* The control plane is the variable remote (canonical name -> stored      *)
(* fields); every request a run issues is appended to that run's log with  *)
(* the status the control plane answered.                                  *)
(*                                                                         *)
(* Python values are strings here; None is the string "None" and the bool  *)
(* option update is "True" / "False".                                      *)
(***************************************************************************)
EXTENDS Integers, Sequences, FiniteSets, TLC

VARIABLES
    args,            \* run -> image_args
    image_name,      \* run -> XcatImage.image_name ("" before construction)
    image_contents,  \* run -> the fields of the last GET that answered 200
    pc,              \* run -> position in run_xcat_module
    gen_image,       \* run -> update's local gen_image
    todo1,           \* run -> fetched keys update's first loop has not visited
    pos2,            \* run -> keys of ArgsOrder update's second loop has visited
    log,             \* run -> the requests issued so far, with their answers
    result,          \* run -> the result dictionary
    remote,          \* canonical name -> fields stored by the control plane
    check_mode,      \* run -> xcat_module.check_mode
    node             \* the invocation of the xcat_node module

vars == <<args, image_name, image_contents, pc, gen_image, todo1, pos2,
          log, result, remote, check_mode, node>>

None == "None"

EmptyMap == [k \in {} |-> None]

(* ---------------- bounds of the explored inputs ---------------- *)

\* the stored image deviates from what a create of the spec would store
\* in at most this many fields
MaxDrift == 2

(* ---------------- field tables of XcatImage.__init__ ---------------- *)

common_options ==
    {"objtype", "imagetype", "osarch", "osdistroname", "osname", "osvers",
     "otherpkgdir", "pkgdir", "pkglist", "profile", "provmethod"}

stateful_options == {"template"}

stateless_options == {"permission", "exlist", "rootimgdir"}

\* the keys of the image_args dictionary literal, before provmethod is added
ArgKeys ==
    {"name", "image_name", "state", "objtype", "exlist", "imagetype",
     "osarch", "osdistroname", "osname", "osvers", "otherpkgdir",
     "permission", "pkgdir", "pkglist", "postinstall", "profile",
     "rootimgdir", "operation", "template", "update", "xcat_token",
     "xcat_api"}

\* insertion order of image_args: the order in which update's second loop
\* visits the keys (provmethod is inserted last, by the state dispatch)
ArgsOrder ==
    <<"name", "image_name", "state", "objtype", "exlist", "imagetype",
      "osarch", "osdistroname", "osname", "osvers", "otherpkgdir",
      "permission", "pkgdir", "pkglist", "postinstall", "profile",
      "rootimgdir", "operation", "template", "update", "xcat_token",
      "xcat_api", "provmethod">>

(* ---------------- caller inputs ---------------- *)

\* the optional options (no default in module_args) the caller gives a value
DeclaredChoices == {{}, {"pkgdir"}, {"template", "rootimgdir"}}

StateChoices == {"stateless", "stateful", "statelite"}

OperationChoices == {"generate", "package"}

OsarchChoices == {"x86_64", "ppc64"}

ImageNameChoices == {None, "custom_image"}

\* image_args as built from the module parameters, defaults applied
ImageArgs(state, operation, update, iname, osarch, declared) ==
    [k \in ArgKeys |->
        CASE k = "name"       -> "ansible_img"
          [] k = "image_name" -> iname
          [] k = "state"      -> state
          [] k = "operation"  -> operation
          [] k = "update"     -> update
          [] k = "objtype"    -> "osimage"
          [] k = "imagetype"  -> "linux"
          [] k = "osarch"     -> osarch
          [] k = "osname"     -> "Linux"
          [] k = "osvers"     -> "centos8"
          [] k = "permission" -> "755"
          [] k = "profile"    -> "compute"
          [] k = "xcat_token" -> "token"
          [] k = "xcat_api"   -> "http://127.0.0.1/xcatws"
          [] OTHER            -> IF k \in declared THEN "/install/" \o k
                                 ELSE None]

SpecInputs ==
    { ImageArgs(s, o, u, n, a, d) :
        s \in StateChoices, o \in OperationChoices, u \in {"True", "False"},
        n \in ImageNameChoices, a \in OsarchChoices,
        d \in DeclaredChoices }

(* ---------------- run_xcat_module: state dispatch, XcatImage.__init__ ---- *)

\* lines 399-402: provmethod is added for the two known states
WithProvmethod(a) ==
    IF a["state"] = "stateless" THEN a @@ ("provmethod" :> "netboot")
    ELSE IF a["state"] = "stateful" THEN a @@ ("provmethod" :> "install")
    ELSE a

\* mutant of ResolveImageName: the image_name option is not looked at
ResolveImageName_NoOverride(a) ==
    a["osvers"] \o "-" \o a["osarch"] \o "-" \o a["provmethod"]
    \o "-" \o a["name"]

\* XcatImage.__init__, lines 213-219
ResolveImageName(a) ==
    IF a["image_name"] # None THEN a["image_name"]
    ELSE a["osvers"] \o "-" \o a["osarch"] \o "-" \o a["provmethod"]
         \o "-" \o a["name"]

\* the body XcatImage.create posts
CreateBody(a) ==
    LET keys == (common_options \cap DOMAIN a)
                \cup (IF a["state"] = "stateful"
                      THEN stateful_options \cap DOMAIN a ELSE {})
                \cup (IF a["state"] = "stateless"
                      THEN stateless_options \cap DOMAIN a ELSE {})
    IN  [k \in keys |-> a[k]]

(* ---------------- the control plane before the run ---------------- *)

Restrict(f, S) == [k \in S |-> f[k]]

\* fields of the stored image that may deviate from the spec; synclists is a
\* field xCAT stores that image_args has no key for
DriftKeys ==
    {"osarch", "pkgdir", "permission", "template", "postinstall", "synclists"}

\* a value no spec declares
Stale == "stale"

Perturb(R) ==
    {[R EXCEPT ![k] = Stale] : k \in DOMAIN R \cap DriftKeys}
    \cup {Restrict(R, DOMAIN R \ {k}) : k \in DOMAIN R \cap DriftKeys}
    \cup {R @@ (k :> Stale) : k \in DriftKeys \ DOMAIN R}

RECURSIVE Drifted(_, _)
Drifted(Rs, n) ==
    IF n = 0 THEN Rs
    ELSE Drifted(Rs \cup UNION {Perturb(R) : R \in Rs}, n - 1)

\* the control plane either has no image of the run's name, or stores one
\* that is at most MaxDrift fields away from what a create would have stored
RemoteChoices(a) ==
    IF a["state"] \notin {"stateless", "stateful"}
    THEN \* no name is resolved for such a run; an image may still be stored
         \* under the name the caller gave
         {EmptyMap} \cup
         (IF a["image_name"] # None
          THEN {a["image_name"] :> CreateBody(a)} ELSE {})
    ELSE LET b == WithProvmethod(a)
         IN  {EmptyMap} \cup
             {ResolveImageName(b) :> R : R \in Drifted({CreateBody(b)}, MaxDrift)}

\* no invocation of the xcat_node module
NodeIdle ==
    [args |-> [name |-> None, image |-> None, action |-> None],
     check_mode |-> FALSE, pc |-> "idle", log |-> <<>>,
     result |-> [changed |-> FALSE], bootstate |-> EmptyMap]

\* the state before any run has started, for the runs RS
InitRuns(RS) ==
    /\ node = NodeIdle
    /\ args \in [RS -> SpecInputs]
    /\ remote \in UNION {RemoteChoices(args[r]) : r \in RS}
    /\ image_name = [r \in RS |-> ""]
    /\ image_contents = [r \in RS |-> EmptyMap]
    /\ pc = [r \in RS |-> "start"]
    /\ gen_image = [r \in RS |-> FALSE]
    /\ todo1 = [r \in RS |-> {}]
    /\ pos2 = [r \in RS |-> 0]
    /\ log = [r \in RS |-> <<>>]
    /\ result = [r \in RS |-> [changed |-> FALSE]]
    /\ check_mode \in [RS -> BOOLEAN]

Init == InitRuns({1})

Runs == DOMAIN pc

(* ---------------- requests and the control plane's answers ---------------- *)

\* any status the code does not expect
ErrorStatuses == {500}

Request(call, name, body, status) ==
    [call |-> call, name |-> name, body |-> body, status |-> status]

Issue(r, call, body, status) ==
    log' = [log EXCEPT ![r] = Append(@, Request(call, image_name[r], body, status))]

\* GET osimages/<name>: 200 when the image is stored, 403 when it is not
\* (the control plane is taken to answer truthfully, or with an error)
GetStatuses(r) ==
    (IF image_name[r] \in DOMAIN remote THEN {200} ELSE {403}) \cup ErrorStatuses

\* PUT osimages/<name>: 200 stores the field as sent
PutStatuses(r) ==
    (IF image_name[r] \in DOMAIN remote THEN {200} ELSE {}) \cup ErrorStatuses

PostStatuses == {201} \cup ErrorStatuses

InstanceBody(action, name) == [action |-> action, tempfile |-> name]

(* ---------------- run_xcat_module, lines 399-406 ---------------- *)

\* mutant of RunStart: the dispatch ends in a plain else, so that every
\* state that is not stateless is handled as stateful
RunStart_ElseStateful(r) ==
    /\ pc[r] = "start"
    /\ args' = [args EXCEPT ![r] =
                  IF @["state"] = "stateless"
                  THEN @ @@ ("provmethod" :> "netboot")
                  ELSE @ @@ ("provmethod" :> "install")]
    /\ image_name' = [image_name EXCEPT ![r] = ResolveImageName(args'[r])]
    /\ pc' = [pc EXCEPT ![r] = "exists1"]
    /\ UNCHANGED <<image_contents, gen_image, todo1, pos2, log, result, remote>>

RunStart(r) ==
    /\ pc[r] = "start"
    /\ IF args[r]["state"] \in {"stateless", "stateful"}
       THEN /\ args' = [args EXCEPT ![r] = WithProvmethod(@)]
            /\ image_name' = [image_name EXCEPT ![r] = ResolveImageName(args'[r])]
            /\ pc' = [pc EXCEPT ![r] = "exists1"]
       ELSE \* exit_json(**result): no XcatImage is built, nothing is requested
            /\ pc' = [pc EXCEPT ![r] = "done"]
            /\ UNCHANGED <<args, image_name>>
    /\ UNCHANGED <<image_contents, gen_image, todo1, pos2, log, result, remote>>

(* ---------------- the if / elif chain, lines 408-416 ---------------- *)

\* where the chain goes when the condition of line 408 is false
AfterIf1(a) ==
    IF a["operation"] = "generate" THEN "exists2"
    ELSE IF a["operation"] = "package" THEN "exists3"
    ELSE "finish"

\* where the chain goes when the condition of line 410 is false
AfterIf2(a) ==
    IF a["operation"] = "package" THEN "exists3" ELSE "finish"

\* mutant of AfterExists: line 408 does not look at the update option
AfterExists_AlwaysUpdate(site, found, a) ==
    CASE site = "exists1" -> IF found THEN "update" ELSE AfterIf1(a)
      [] site = "exists2" -> IF ~found THEN "create" ELSE AfterIf2(a)
      [] site = "exists3" -> IF found THEN "pack_up" ELSE "finish"

\* mutant of AfterExists: after the update branch the chain goes on to the
\* package branch (an if where the code has elif)
AfterExists_PackageFirst(site, found, a) ==
    CASE site = "exists1" ->
           IF found /\ a["operation"] = "package" THEN "pack_up"
           ELSE IF found /\ a["update"] = "True" THEN "update"
           ELSE AfterIf1(a)
      [] site = "exists2" -> IF ~found THEN "create" ELSE AfterIf2(a)
      [] site = "exists3" -> IF found THEN "pack_up" ELSE "finish"

\* mutant of AfterExists: line 410 tests exists() where the code has
\* not exists()
AfterExists_CreateWhenFound(site, found, a) ==
    CASE site = "exists1" ->
           IF found /\ a["update"] = "True" THEN "update" ELSE AfterIf1(a)
      [] site = "exists2" -> IF found THEN "create" ELSE AfterIf2(a)
      [] site = "exists3" -> IF found THEN "pack_up" ELSE "finish"

\* the position after exists() returned found at the call site pc
AfterExists(site, found, a) ==
    CASE site = "exists1" ->
           IF found /\ a["update"] = "True" THEN "update" ELSE AfterIf1(a)
      [] site = "exists2" ->
           IF ~found THEN "create" ELSE AfterIf2(a)
      [] site = "exists3" ->
           IF found THEN "pack_up" ELSE "finish"

\* mutant of ExistsOutcome: every status but 200 counts as absent
ExistsOutcome_ElseAbsent(status) ==
    IF status = 200 THEN "found" ELSE "absent"

\* what XcatImage.exists makes of the status of its GET
ExistsOutcome(status) ==
    IF status = 200 THEN "found"
    ELSE IF status = 403 THEN "absent"
    ELSE "exit"

\* XcatImage.exists, called at lines 408, 410 and 415
Exists(r) ==
    /\ pc[r] \in {"exists1", "exists2", "exists3"}
    /\ \E status \in GetStatuses(r) :
        /\ Issue(r, "GET", EmptyMap, status)
        /\ IF ExistsOutcome(status) = "found"
           THEN /\ image_contents' =
                        [image_contents EXCEPT ![r] = remote[image_name[r]]]
                /\ LET next == AfterExists(pc[r], TRUE, args[r])
                   IN  /\ pc' = [pc EXCEPT ![r] = next]
                       /\ todo1' = [todo1 EXCEPT ![r] =
                               IF next = "update"
                               THEN DOMAIN remote[image_name[r]] ELSE @]
           ELSE IF ExistsOutcome(status) = "absent"
           THEN /\ pc' = [pc EXCEPT ![r] = AfterExists(pc[r], FALSE, args[r])]
                /\ UNCHANGED <<image_contents, todo1>>
           ELSE \* sys.exit(1)
                /\ pc' = [pc EXCEPT ![r] = "exit1"]
                /\ UNCHANGED <<image_contents, todo1>>
    /\ UNCHANGED <<args, image_name, gen_image, pos2, result, remote>>

(* ---------------- XcatImage.update, lines 257-283 ---------------- *)

\* first loop: the fetched keys whose iteration does something. The loop
\* reads image_args[key] for every fetched key (a KeyError when image_args
\* has no such key) and patches when the fetched value differs. The other
\* iterations change nothing, so the model skips them; the order of the
\* fetched dictionary is the control plane's, so any acting key may be next.
Acting1(r) ==
    {k \in todo1[r] :
        k \notin DOMAIN args[r] \/ image_contents[r][k] # args[r][k]}

\* mutant of Missing2: a fetched field whose value is None counts as missing
Missing2_OrUnset(r) ==
    {i \in (pos2[r] + 1)..Len(ArgsOrder) :
        /\ ArgsOrder[i] \in DOMAIN args[r]
        /\ \/ ArgsOrder[i] \notin DOMAIN image_contents[r]
           \/ image_contents[r][ArgsOrder[i]] = None
        /\ ArgsOrder[i] \in common_options}

\* mutant of Missing2: the second loop is left out
Missing2_Skipped(r) == {}

\* mutant of Missing2: the second loop does not look at the fetched fields
Missing2_AllCommon(r) ==
    {i \in (pos2[r] + 1)..Len(ArgsOrder) :
        /\ ArgsOrder[i] \in DOMAIN args[r]
        /\ ArgsOrder[i] \in common_options}

\* second loop: positions of ArgsOrder not yet visited whose key is missing
\* from the fetched fields and is a common option
Missing2(r) ==
    {i \in (pos2[r] + 1)..Len(ArgsOrder) :
        /\ ArgsOrder[i] \in DOMAIN args[r]
        /\ ArgsOrder[i] \notin DOMAIN image_contents[r]
        /\ ArgsOrder[i] \in common_options}

\* the control plane after a PUT of one field answered 200
Stored(r, k) ==
    [remote EXCEPT ![image_name[r]] = (k :> args[r][k]) @@ @]

\* mutant of PatchNext: the status of the PUT is not looked at
PatchNext_Ignore(status, at) == at

\* lines 267-270 and 278-281: a status other than 200 is sys.exit(1), a
\* 200 leaves the loop where it is
PatchNext(status, at) == IF status # 200 THEN "exit1" ELSE at

\* one PUT of update: {key: image_args[key]}
Patch(r, k) ==
    \E status \in PutStatuses(r) :
        /\ Issue(r, "PUT", k :> args[r][k], status)
        /\ IF status = 200
           THEN /\ gen_image' = [gen_image EXCEPT ![r] = TRUE]
                /\ remote' = Stored(r, k)
           ELSE UNCHANGED <<gen_image, remote>>
        /\ pc' = [pc EXCEPT ![r] = PatchNext(status, @)]

UpdateDiffering(r) ==
    /\ pc[r] = "update"
    /\ \E k \in Acting1(r) :
        /\ todo1' = [todo1 EXCEPT ![r] = @ \ {k}]
        /\ IF k \notin DOMAIN args[r]
           THEN \* self.image_args[key] raises KeyError: the run dies
                /\ pc' = [pc EXCEPT ![r] = "crash"]
                /\ UNCHANGED <<gen_image, remote, log>>
           ELSE Patch(r, k)
    /\ UNCHANGED <<args, image_name, image_contents, pos2, result>>

UpdateMissing(r) ==
    /\ pc[r] = "update"
    /\ Acting1(r) = {}
    /\ Missing2(r) # {}
    /\ LET i == CHOOSE j \in Missing2(r) : \A m \in Missing2(r) : j <= m
       IN  /\ pos2' = [pos2 EXCEPT ![r] = i]
           /\ Patch(r, ArgsOrder[i])
    /\ UNCHANGED <<args, image_name, image_contents, todo1, result>>

\* mutant of UpdateNext: generate is called whether or not gen_image is set
UpdateNext_Always(g) == "generate"

\* lines 282-283: if gen_image: self.generate()
UpdateNext(g) == IF g THEN "generate" ELSE "finish"

UpdateEnd(r) ==
    /\ pc[r] = "update"
    /\ Acting1(r) = {}
    /\ Missing2(r) = {}
    /\ pc' = [pc EXCEPT ![r] = UpdateNext(gen_image[r])]
    /\ UNCHANGED <<args, image_name, image_contents, gen_image, todo1, pos2,
                   log, result, remote>>

(* ---------------- generate, create, pack_up ---------------- *)

\* mutant of InstanceNext: the status of the instance POST is not looked at
InstanceNext_Ignore(status) == "finish"

\* lines 294-295 and 328-329: a status other than 201 is sys.exit(1)
InstanceNext(status) == IF status = 201 THEN "finish" ELSE "exit1"

\* XcatImage.generate, lines 286-295
Generate(r) ==
    /\ pc[r] = "generate"
    /\ \E status \in PostStatuses :
        /\ Issue(r, "POST_GEN", InstanceBody("gen", image_name[r]), status)
        /\ pc' = [pc EXCEPT ![r] = InstanceNext(status)]
    /\ UNCHANGED <<args, image_name, image_contents, gen_image, todo1, pos2,
                   result, remote>>

\* mutant of AfterCreate: generate is called whatever create returned
AfterCreate_Always(status) == "generate"

\* mutant of AfterCreate: a create that is not 201 ends the run like the
\* other failures do
AfterCreate_ExitOnFailure(status) ==
    IF status = 201 THEN "generate" ELSE "exit1"

\* lines 315-318 and 411-414: create is True on 201 only, and only then
\* does the caller generate; otherwise it prints and goes on
AfterCreate(status) == IF status = 201 THEN "generate" ELSE "finish"

\* XcatImage.create, lines 297-318, and its caller, lines 411-414
Create(r) ==
    /\ pc[r] = "create"
    /\ \E status \in PostStatuses :
        /\ Issue(r, "POST_CREATE", CreateBody(args[r]), status)
        /\ remote' = IF status = 201
                     THEN (image_name[r] :> CreateBody(args[r])) @@ remote
                     ELSE remote
        /\ pc' = [pc EXCEPT ![r] = AfterCreate(status)]
    /\ UNCHANGED <<args, image_name, image_contents, gen_image, todo1, pos2,
                   result>>

\* XcatImage.pack_up, lines 320-329
PackUp(r) ==
    /\ pc[r] = "pack_up"
    /\ \E status \in PostStatuses :
        /\ Issue(r, "POST_PACK", InstanceBody("pack", image_name[r]), status)
        /\ pc' = [pc EXCEPT ![r] = InstanceNext(status)]
    /\ UNCHANGED <<args, image_name, image_contents, gen_image, todo1, pos2,
                   result, remote>>

(* ---------------- run_xcat_module, lines 418-424 ---------------- *)

\* the result is filled in, then check_mode is read (lines 421-422); both
\* ways end in the same exit_json(**result)
Finish(r) ==
    /\ pc[r] = "finish"
    /\ result' = [result EXCEPT ![r] =
                    [changed |-> @.changed,
                     image_name |-> image_name[r],
                     update |-> args[r]["update"]]]
    /\ pc' = [pc EXCEPT ![r] = IF check_mode[r] THEN "done" ELSE "done"]
    /\ UNCHANGED <<args, image_name, image_contents, gen_image, todo1, pos2,
                   log, remote>>

Next ==
    \/ \E r \in Runs : RunStart(r) /\ UNCHANGED <<node, check_mode>>
    \/ \E r \in Runs : Exists(r) /\ UNCHANGED <<node, check_mode>>
    \/ \E r \in Runs : UpdateDiffering(r) /\ UNCHANGED <<node, check_mode>>
    \/ \E r \in Runs : UpdateMissing(r) /\ UNCHANGED <<node, check_mode>>
    \/ \E r \in Runs : UpdateEnd(r) /\ UNCHANGED <<node, check_mode>>
    \/ \E r \in Runs : Generate(r) /\ UNCHANGED <<node, check_mode>>
    \/ \E r \in Runs : Create(r) /\ UNCHANGED <<node, check_mode>>
    \/ \E r \in Runs : PackUp(r) /\ UNCHANGED <<node, check_mode>>
    \/ \E r \in Runs : Finish(r) /\ UNCHANGED <<node, check_mode>>

Spec == Init /\ [][Next]_vars

(* ---------------- two runs against one canonical name ---------------- *)

\* two stateless specs that resolve to the same name and may differ in
\* operation and update
TwoRunInputs ==
    { ImageArgs("stateless", o, u, None, "x86_64", {}) :
        o \in OperationChoices, u \in {"True", "False"} }

\* the image is absent, or stored one field away from the spec
InitTwoRuns ==
    /\ node = NodeIdle
    /\ args \in [{1, 2} -> TwoRunInputs]
    /\ image_name = [r \in {1, 2} |-> ""]
    /\ image_contents = [r \in {1, 2} |-> EmptyMap]
    /\ pc = [r \in {1, 2} |-> "start"]
    /\ gen_image = [r \in {1, 2} |-> FALSE]
    /\ todo1 = [r \in {1, 2} |-> {}]
    /\ pos2 = [r \in {1, 2} |-> 0]
    /\ log = [r \in {1, 2} |-> <<>>]
    /\ result = [r \in {1, 2} |-> [changed |-> FALSE]]
    /\ check_mode \in [{1, 2} -> BOOLEAN]
    /\ remote \in {EmptyMap} \cup
          {ResolveImageName(WithProvmethod(args[1])) :> R :
              R \in Drifted({CreateBody(WithProvmethod(args[1]))}, 1)}

\* the runs are separate processes: any run that has not ended may step
SpecTwoRuns == InitTwoRuns /\ [][Next]_vars

(* ---------------- plugins/modules/xcat_node.py ---------------- *)

NodeNameChoices == {None, "node01", "node02"}

NodeImageChoices == {None, "custom_image", "centos8-x86_64-netboot-ansible_img"}

\* module_args gives action no choices: any string is accepted
NodeActionChoices == {"bootstate", "reboot"}

InitNode ==
    /\ \E n \in NodeNameChoices, i \in NodeImageChoices,
          a \in NodeActionChoices, c \in BOOLEAN :
          node = [NodeIdle EXCEPT
                    !.args = [name |-> n, image |-> i, action |-> a],
                    !.check_mode = c,
                    !.pc = "start"]
    /\ args = EmptyMap /\ image_name = EmptyMap /\ image_contents = EmptyMap
    /\ pc = EmptyMap /\ gen_image = EmptyMap /\ todo1 = EmptyMap
    /\ pos2 = EmptyMap /\ log = EmptyMap /\ result = EmptyMap
    /\ remote = EmptyMap /\ check_mode = EmptyMap

imagevars == <<args, image_name, image_contents, pc, gen_image, todo1, pos2,
               log, result, remote, check_mode>>

\* XcatNode.set_bootstate, lines 79-87, called at lines 121-122
NodeSetBootstate ==
    /\ node.pc = "start"
    /\ node.args.action = "bootstate"
    /\ \E status \in {200} \cup ErrorStatuses :
          node' = [node EXCEPT
              !.log = Append(@, [call |-> "PUT_BOOTSTATE",
                                 name |-> node.args.name,
                                 body |-> [osimage |-> node.args.image],
                                 status |-> status]),
              !.bootstate = IF status = 200
                            THEN (node.args.name :> node.args.image) @@ @
                            ELSE @,
              !.pc = IF status # 200 THEN "exit1" ELSE "finish"]
    /\ UNCHANGED imagevars

\* line 121 when the action is not bootstate: nothing is called
NodeOtherAction ==
    /\ node.pc = "start"
    /\ node.args.action # "bootstate"
    /\ node' = [node EXCEPT !.pc = "finish"]
    /\ UNCHANGED imagevars

\* run_xcat_node_module, lines 124-129
NodeFinish ==
    /\ node.pc = "finish"
    /\ node' = [node EXCEPT
          !.result = IF node.check_mode THEN @ ELSE [changed |-> TRUE],
          !.pc = "done"]
    /\ UNCHANGED imagevars

NextNode == NodeSetBootstate \/ NodeOtherAction \/ NodeFinish

SpecNode == InitNode /\ [][NextNode]_vars

(* ---------------- reading a run's log ---------------- *)

Calls(r, kinds) == {i \in 1..Len(log[r]) : log[r][i].call \in kinds}

Mutating == {"POST_CREATE", "PUT", "POST_GEN", "POST_PACK"}

PatchesOk(r) == {i \in Calls(r, {"PUT"}) : log[r][i].status = 200}

PatchesFailed(r) == {i \in Calls(r, {"PUT"}) : log[r][i].status # 200}

\* the run is over: exit_json, sys.exit(1), or an uncaught exception
Ended(r) == pc[r] \in {"done", "exit1", "crash"}

\* the run found the image stored and was asked to update it
UpdateRun(r) ==
    /\ Len(log[r]) >= 1
    /\ log[r][1].call = "GET" /\ log[r][1].status = 200
    /\ args[r]["update"] = "True"

(* ---------------- C1 ---------------- *)

\* C1 as stated: in every ended run that found the image and was asked to
\* update, exactly one generate call was issued, after the patches, if at
\* least one PATCH succeeded, and none if no PATCH succeeded; whatever the
\* other PATCHes answered.
C1_GenerateIffAnyPatchOk ==
    \A r \in Runs :
        Ended(r) /\ UpdateRun(r) =>
            IF PatchesOk(r) # {}
            THEN /\ Cardinality(Calls(r, {"POST_GEN"})) = 1
                 /\ \A g \in Calls(r, {"POST_GEN"}) :
                        \A p \in Calls(r, {"PUT"}) : p < g
            ELSE Calls(r, {"POST_GEN"}) = {}

\* C1, amended: exactly one generate call is issued, after all the patches,
\* if at least one PATCH succeeded and the diff pass ran to its end (no PATCH
\* answered a non-success status and the run did not die in the pass); in
\* every other update run no generate call is issued.
C1_GenerateIffPassCompletedWithPatch ==
    \A r \in Runs :
        Ended(r) /\ UpdateRun(r) =>
            IF PatchesOk(r) # {} /\ PatchesFailed(r) = {} /\ pc[r] # "crash"
            THEN /\ Cardinality(Calls(r, {"POST_GEN"})) = 1
                 /\ \A g \in Calls(r, {"POST_GEN"}) :
                        \A p \in Calls(r, {"PUT"}) : p < g
            ELSE Calls(r, {"POST_GEN"}) = {}

\* two PATCHes succeeded, none failed, and the generate call followed
C1_Witness ==
    \E r \in Runs :
        /\ Ended(r) /\ UpdateRun(r)
        /\ Cardinality(PatchesOk(r)) >= 2 /\ PatchesFailed(r) = {}
        /\ Cardinality(Calls(r, {"POST_GEN"})) = 1

(* ---------------- C2 ---------------- *)

\* the fields a PATCH was issued for
Patched(r) ==
    {k \in UNION {DOMAIN log[r][i].body : i \in Calls(r, {"PUT"})} : TRUE}

\* the fields C2 says are patched, R being the fetched fields and S image_args
DiffOf(R, S) ==
    {f \in DOMAIN R \cap DOMAIN S : R[f] # S[f]}
    \cup {f \in common_options : f \in DOMAIN S /\ f \notin DOMAIN R}

\* C2 as stated: in every ended update run in which no PATCH failed, the set
\* of fields a PATCH was issued for is exactly the fetched fields whose value
\* differs from the spec's, plus the common fields the spec has and the
\* fetched state lacks.
C2_DiffMinimality ==
    \A r \in Runs :
        Ended(r) /\ UpdateRun(r) /\ PatchesFailed(r) = {} =>
            Patched(r) = DiffOf(image_contents[r], args[r])

\* the same, for the runs that did not die in the diff pass: this part holds
C2_DiffMinimalityUnlessCrashed ==
    \A r \in Runs :
        Ended(r) /\ UpdateRun(r) /\ PatchesFailed(r) = {} /\ pc[r] # "crash" =>
            Patched(r) = DiffOf(image_contents[r], args[r])

(* ---------------- C3 ---------------- *)

\* C3 as stated: the three option sets are pairwise disjoint, and no create
\* body and no PATCH body carries a stateless-only field when state is
\* stateful, nor a stateful-only field when state is stateless.
C3_FieldPartitionExclusive ==
    /\ common_options \cap stateful_options = {}
    /\ common_options \cap stateless_options = {}
    /\ stateful_options \cap stateless_options = {}
    /\ \A r \in Runs :
        \A i \in Calls(r, {"POST_CREATE", "PUT"}) :
            /\ args[r]["state"] = "stateful" =>
                  DOMAIN log[r][i].body \cap stateless_options = {}
            /\ args[r]["state"] = "stateless" =>
                  DOMAIN log[r][i].body \cap stateful_options = {}

\* the create bodies alone do respect the partition
C3_CreateBodyExclusive ==
    \A r \in Runs :
        \A i \in Calls(r, {"POST_CREATE"}) :
            /\ args[r]["state"] = "stateful" =>
                  DOMAIN log[r][i].body \cap stateless_options = {}
            /\ args[r]["state"] = "stateless" =>
                  DOMAIN log[r][i].body \cap stateful_options = {}

(* ---------------- C4 ---------------- *)

\* C4: in every ended run, a create POST answered 201 is followed by exactly
\* one generate call, and a create POST answered anything else by none.
C4_CreateThenGenerate ==
    \A r \in Runs :
        Ended(r) =>
            \A c \in Calls(r, {"POST_CREATE"}) :
                IF log[r][c].status = 201
                THEN /\ Cardinality(Calls(r, {"POST_GEN"})) = 1
                     /\ \A g \in Calls(r, {"POST_GEN"}) : c < g
                ELSE Calls(r, {"POST_GEN"}) = {}

\* an absent image, operation generate: create answered 201, generate followed
C4_Witness ==
    \E r \in Runs :
        /\ pc[r] = "done"
        /\ args[r]["operation"] = "generate"
        /\ Len(log[r]) = 4
        /\ log[r][1].call = "GET" /\ log[r][1].status = 403
        /\ log[r][3].call = "POST_CREATE" /\ log[r][3].status = 201
        /\ log[r][4].call = "POST_GEN"

(* ---------------- C5 ---------------- *)

\* C5: a GET answered anything but 200 or 403 is the last request of its
\* run, and the run has exited.
C5_FetchErrorAborts ==
    \A r \in Runs :
        \A i \in Calls(r, {"GET"}) :
            log[r][i].status \notin {200, 403} =>
                /\ i = Len(log[r])
                /\ pc[r] = "exit1"

\* the second existence fetch of a run failed, after the first found nothing
C5_Witness ==
    \E r \in Runs :
        /\ Len(log[r]) = 2
        /\ log[r][1].call = "GET" /\ log[r][1].status = 403
        /\ log[r][2].call = "GET" /\ log[r][2].status = 500
        /\ pc[r] = "exit1"

(* ---------------- C6 ---------------- *)

\* C6: a PATCH answered a non-success status is the last request of its run
\* (no further PATCH, no generate, no compensating call), the run has
\* exited, and every field patched successfully before it is still stored
\* by the control plane with the value sent.
C6_PatchFailureAborts ==
    \A r \in Runs :
        \A i \in PatchesFailed(r) :
            /\ i = Len(log[r])
            /\ pc[r] = "exit1"
            /\ \A j \in PatchesOk(r) :
                   \A k \in DOMAIN log[r][j].body :
                       /\ image_name[r] \in DOMAIN remote
                       /\ k \in DOMAIN remote[image_name[r]]
                       /\ remote[image_name[r]][k] = log[r][j].body[k]

\* a PATCH succeeded and changed the stored image, then a PATCH failed
C6_Witness ==
    \E r \in Runs :
        /\ PatchesFailed(r) # {}
        /\ \E j \in PatchesOk(r) :
               \E k \in DOMAIN log[r][j].body :
                   /\ k \in DOMAIN image_contents[r]
                   /\ image_contents[r][k] # log[r][j].body[k]
                   /\ remote[image_name[r]][k] = log[r][j].body[k]

(* ---------------- C7 ---------------- *)

\* C7: a run that found the image stored, was not asked to update and has
\* operation generate issues no create, PATCH, generate or package call.
C7_NoOpBranch ==
    \A r \in Runs :
        /\ Len(log[r]) >= 1
        /\ log[r][1].call = "GET" /\ log[r][1].status = 200
        /\ args[r]["update"] = "False"
        /\ args[r]["operation"] = "generate"
        => Calls(r, Mutating) = {}

\* such a run ended normally although the stored image differs from the spec
C7_Witness ==
    \E r \in Runs :
        /\ pc[r] = "done"
        /\ args[r]["update"] = "False"
        /\ args[r]["operation"] = "generate"
        /\ Len(log[r]) = 2
        /\ log[r][1].status = 200 /\ log[r][2].status = 200
        /\ \E k \in DOMAIN remote[image_name[r]] \cap DOMAIN args[r] :
               remote[image_name[r]][k] # args[r][k]

(* ---------------- C8 ---------------- *)

\* C8 as stated: a run that created the image (201) and generated it (201)
\* reports changed = true.
C8_CreateGenerateReportsChanged ==
    \A r \in Runs :
        /\ pc[r] = "done"
        /\ \E c \in Calls(r, {"POST_CREATE"}) : log[r][c].status = 201
        /\ \E g \in Calls(r, {"POST_GEN"}) : log[r][g].status = 201
        => result[r].changed = TRUE

(* ---------------- C9 ---------------- *)

\* the name C9 states, from the options the caller gave
CanonicalName(a) ==
    IF a["image_name"] = None
    THEN a["osvers"] \o "-" \o a["osarch"] \o "-"
         \o (IF a["state"] = "stateless" THEN "netboot" ELSE "install")
         \o "-" \o a["name"]
    ELSE a["image_name"]

\* C9: every request of a run addresses the image by osvers-osarch-
\* provmethod-name (netboot for stateless, install for stateful) when
\* image_name is unset, and by image_name itself when it is set.
C9_IdentityDeterminism ==
    \A r \in Runs :
        \A i \in 1..Len(log[r]) :
            /\ log[r][i].name = CanonicalName(args[r])
            /\ log[r][i].call \in {"POST_GEN", "POST_PACK"} =>
                   log[r][i].body.tempfile = CanonicalName(args[r])

\* a stateful spec without image_name created and generated its image
C9_Witness ==
    \E r \in Runs :
        /\ args[r]["image_name"] = None
        /\ args[r]["state"] = "stateful"
        /\ args[r]["osarch"] = "ppc64"
        /\ Calls(r, {"POST_CREATE"}) # {}
        /\ \E g \in Calls(r, {"POST_GEN"}) :
               log[r][g].name = "centos8-ppc64-install-ansible_img"

(* ---------------- C10 ---------------- *)

FetchFailed(r) ==
    \E i \in Calls(r, {"GET"}) : log[r][i].status \notin {200, 403}

\* the third row of the chain, for a spec with one of the two states
PackageCase(r) ==
    /\ args[r]["state"] \in {"stateless", "stateful"}
    /\ CanonicalName(args[r]) \in DOMAIN remote
    /\ args[r]["update"] = "False"
    /\ args[r]["operation"] = "package"

\* C10: with the stored image left alone by everyone else, a package call
\* is issued only when the image exists, update is not requested and
\* operation is package, and then it is the run's only mutating call; and
\* every such run (state stateless or stateful) whose existence fetches
\* were answered issues exactly one.
C10_PackageIff ==
    \A r \in Runs :
        /\ Calls(r, {"POST_PACK"}) # {} =>
              /\ PackageCase(r)
              /\ Cardinality(Calls(r, {"POST_PACK"})) = 1
              /\ Calls(r, {"POST_CREATE", "PUT", "POST_GEN"}) = {}
        /\ Ended(r) /\ ~FetchFailed(r) /\ PackageCase(r) =>
              Cardinality(Calls(r, {"POST_PACK"})) = 1

\* the image exists, update is off, operation is package: one package call
C10_Witness ==
    \E r \in Runs :
        /\ pc[r] = "done"
        /\ PackageCase(r)
        /\ Calls(r, Mutating) = Calls(r, {"POST_PACK"})
        /\ \E i \in Calls(r, {"POST_PACK"}) : log[r][i].status = 201

(* ---------------- C11 ---------------- *)

\* a status that is a failure for the call it answers (403 is the GET's
\* answer for an image that is not stored)
FailureStatus(q) ==
    CASE q.call = "GET" -> q.status \notin {200, 403}
      [] q.call = "PUT" -> q.status # 200
      [] OTHER          -> q.status # 201

\* C11: a create POST answered anything but 201 is the last request of its
\* run (no generate, no other call), the run goes on to exit_json and its
\* result carries the canonical name; and a run that reached exit_json has
\* no failed call other than a create.
C11_CreateFailureReported ==
    \A r \in Runs :
        /\ \A c \in Calls(r, {"POST_CREATE"}) :
              log[r][c].status # 201 =>
                  /\ c = Len(log[r])
                  /\ pc[r] \in {"finish", "done"}
                  /\ pc[r] = "done" =>
                        result[r].image_name = CanonicalName(args[r])
        /\ pc[r] = "done" =>
              \A i \in 1..Len(log[r]) :
                  FailureStatus(log[r][i]) => log[r][i].call = "POST_CREATE"

\* a run whose create failed has returned its result
C11_Witness ==
    \E r \in Runs :
        /\ pc[r] = "done"
        /\ \E c \in Calls(r, {"POST_CREATE"}) : log[r][c].status = 500
        /\ result[r].image_name = CanonicalName(args[r])
        /\ Calls(r, {"POST_GEN"}) = {}

(* ---------------- C12 ---------------- *)

\* C12: a generate or package POST answered anything but 201 is the last
\* request of its run, the run has exited without filling or returning its
\* result, and no run issues more than one generate POST or more than one
\* package POST.
C12_InstanceFailureAborts ==
    \A r \in Runs :
        /\ \A i \in Calls(r, {"POST_GEN", "POST_PACK"}) :
              log[r][i].status # 201 =>
                  /\ i = Len(log[r])
                  /\ pc[r] = "exit1"
                  /\ result[r] = [changed |-> FALSE]
        /\ Cardinality(Calls(r, {"POST_GEN"})) <= 1
        /\ Cardinality(Calls(r, {"POST_PACK"})) <= 1

\* a generate POST that followed a successful PATCH failed
C12_Witness ==
    \E r \in Runs :
        /\ pc[r] = "exit1"
        /\ PatchesOk(r) # {}
        /\ \E g \in Calls(r, {"POST_GEN"}) : log[r][g].status = 500

(* ---------------- C13 ---------------- *)

\* the fields patched by the requests before position g
PatchedBefore(r, g) ==
    UNION {DOMAIN log[r][i].body : i \in {p \in Calls(r, {"PUT"}) : p < g}}

\* C13: the first request of a run is an existence fetch and every mutating
\* call comes after a fetch that was answered 200 or 403; a generate call
\* comes after a create answered 201, or after a diff pass that ran to its
\* end (every field of the diff patched, every PATCH answered 200) with at
\* least one PATCH; and no create or PATCH comes after a generate call.
C13_CallOrder ==
    \A r \in Runs :
        /\ \A i \in Calls(r, Mutating) :
              \E f \in Calls(r, {"GET"}) :
                  f < i /\ log[r][f].status \in {200, 403}
        /\ \A g \in Calls(r, {"POST_GEN"}) :
              \/ \E c \in Calls(r, {"POST_CREATE"}) :
                     c < g /\ log[r][c].status = 201
              \/ /\ \E p \in PatchesOk(r) : p < g
                 /\ \A p \in PatchesFailed(r) : g < p
                 /\ PatchedBefore(r, g) = DiffOf(image_contents[r], args[r])
        /\ \A g \in Calls(r, {"POST_GEN"}) :
              \A i \in Calls(r, {"POST_CREATE", "PUT"}) : i < g

\* a differing field and a missing field were patched, then generate
C13_Witness ==
    \E r \in Runs :
        /\ \E g \in Calls(r, {"POST_GEN"}) :
               /\ \E k \in PatchedBefore(r, g) : k \in DOMAIN image_contents[r]
               /\ \E k \in PatchedBefore(r, g) : k \notin DOMAIN image_contents[r]

(* ---------------- C14 ---------------- *)

ObservedAbsentTwice(r) ==
    /\ Len(log[r]) >= 2
    /\ log[r][1].call = "GET" /\ log[r][1].status = 403
    /\ log[r][2].call = "GET" /\ log[r][2].status = 403

\* C14, under SpecTwoRuns: a run with operation generate whose two fetches
\* were answered Absent issues its create POST whatever the other run has
\* done or is doing; nothing makes it wait for, or yield to, the other run.
C14_AbsentRunCreates ==
    \A r \in Runs :
        /\ ObservedAbsentTwice(r)
        /\ args[r]["operation"] = "generate"
        => /\ pc[r] # "exists3"
           /\ pc[r] # "create" => Calls(r, {"POST_CREATE"}) # {}

\* both runs observed Absent and both posted a create for the same name
C14_Witness ==
    /\ Runs = {1, 2}
    /\ image_name[1] = image_name[2]
    /\ \A r \in Runs :
        /\ ObservedAbsentTwice(r)
        /\ \E c \in Calls(r, {"POST_CREATE"}) : log[r][c].status = 201

(* ---------------- C15 ---------------- *)

\* C15 as stated: the result a run returns carries the canonical name, and
\* its update entry is true exactly when a PATCH was applied in that run.
C15_UpdateReportsPatchApplied ==
    \A r \in Runs :
        pc[r] = "done" /\ args[r]["state"] \in {"stateless", "stateful"} =>
            /\ result[r].image_name = CanonicalName(args[r])
            /\ result[r].update = "True" <=> PatchesOk(r) # {}

(* ---------------- C16 ---------------- *)

\* C16 as stated: a fetched field the spec has no key for is not patched and
\* does not end the run: the other fields are diffed as usual and a
\* generate follows a successful PATCH.
C16_UntrackedFieldTolerated ==
    \A r \in Runs :
        Ended(r) /\ UpdateRun(r) =>
            /\ pc[r] # "crash"
            /\ Patched(r) \subseteq DOMAIN args[r]
            /\ PatchesFailed(r) = {} =>
                  /\ Patched(r) = DiffOf(image_contents[r], args[r])
                  /\ PatchesOk(r) # {} =>
                        Cardinality(Calls(r, {"POST_GEN"})) = 1

(* ---------------- C17 ---------------- *)

\* C17 as stated: no create body carries an option the caller left without
\* a value, and no PATCH adds such an option when the fetched state lacks it.
C17_OnlyDeclaredFieldsSent ==
    \A r \in Runs :
        /\ \A c \in Calls(r, {"POST_CREATE"}) :
              \A k \in DOMAIN log[r][c].body : log[r][c].body[k] # None
        /\ \A p \in Calls(r, {"PUT"}) :
              \A k \in DOMAIN log[r][p].body :
                  k \notin DOMAIN image_contents[r] => log[r][p].body[k] # None

(* ---------------- C18 ---------------- *)

\* C18: every PATCH body holds exactly one field, with the value image_args
\* holds for it, and no two PATCHes of a run carry the same field.
C18_OneFieldPerPatch ==
    \A r \in Runs :
        /\ \A p \in Calls(r, {"PUT"}) :
              /\ Cardinality(DOMAIN log[r][p].body) = 1
              /\ \A k \in DOMAIN log[r][p].body :
                    k \in DOMAIN args[r] /\ log[r][p].body[k] = args[r][k]
        /\ \A p, q \in Calls(r, {"PUT"}) :
              p # q => DOMAIN log[r][p].body \cap DOMAIN log[r][q].body = {}

\* a run patched a differing common field in the first loop and then a
\* missing one in the second
C18_Witness ==
    \E r \in Runs :
        /\ pc[r] = "done"
        /\ \E p, q \in PatchesOk(r) :
            /\ p < q
            /\ DOMAIN log[r][p].body \subseteq
                   common_options \cap DOMAIN image_contents[r]
            /\ DOMAIN log[r][q].body \cap DOMAIN image_contents[r] = {}

(* ---------------- C19 ---------------- *)

\* C19: a run whose state is neither stateless nor stateful issues no
\* request at all, and ends in exit_json with changed = false.
C19_UnknownStateNoOp ==
    \A r \in Runs :
        args[r]["state"] \notin {"stateless", "stateful"} =>
            /\ log[r] = <<>>
            /\ pc[r] \in {"start", "done"}
            /\ result[r] = [changed |-> FALSE]

\* such a run has ended while an image is stored under the name it gave
C19_Witness ==
    \E r \in Runs :
        /\ args[r]["state"] = "statelite"
        /\ pc[r] = "done"
        /\ args[r]["image_name"] \in DOMAIN remote
        /\ log[r] = <<>>

(* ---------------- C20 ---------------- *)

\* C20 as stated, under SpecNode: the node module reports changed = true
\* only when a bootstate PUT was issued in that invocation and answered 200.
C20_ChangedOnlyAfterPut200 ==
    node.pc = "done" /\ node.result.changed =>
        \E i \in 1..Len(node.log) :
            /\ node.log[i].call = "PUT_BOOTSTATE"
            /\ node.log[i].status = 200

\* what does hold: with action bootstate, changed = true is reported only
\* after a PUT answered 200
C20_BootstateChangedOnlyAfterPut200 ==
    node.pc = "done" /\ node.result.changed /\ node.args.action = "bootstate" =>
        \E i \in 1..Len(node.log) :
            /\ node.log[i].call = "PUT_BOOTSTATE"
            /\ node.log[i].status = 200

(* ---------------- C21 ---------------- *)

\* another client of the control plane creates the image a run is working
\* on, while that run is between two of its requests
OtherActorCreates(r) ==
    /\ pc[r] # "start" /\ ~Ended(r)
    /\ image_name[r] \notin DOMAIN remote
    /\ remote' = (image_name[r] :> CreateBody(args[r])) @@ remote
    /\ UNCHANGED <<args, image_name, image_contents, pc, gen_image, todo1,
                   pos2, log, result, check_mode, node>>

\* another client removes the image a run is working on
OtherActorDeletes(r) ==
    /\ pc[r] # "start" /\ ~Ended(r)
    /\ image_name[r] \in DOMAIN remote
    /\ remote' = Restrict(remote, DOMAIN remote \ {image_name[r]})
    /\ UNCHANGED <<args, image_name, image_contents, pc, gen_image, todo1,
                   pos2, log, result, check_mode, node>>

NextOtherActor ==
    \/ Next
    \/ \E r \in Runs : OtherActorCreates(r)
    \/ \E r \in Runs : OtherActorDeletes(r)

\* one run, and a control plane other clients write to
SpecOtherActor == Init /\ [][NextOtherActor]_vars

\* C21 as stated, under SpecOtherActor: a run whose first fetch was answered
\* Absent issues no package call, and a run whose first fetch was answered
\* Exists issues no create call.
C21_FirstObservationDecides ==
    \A r \in Runs :
        Len(log[r]) >= 1 =>
            /\ log[r][1].status = 403 => Calls(r, {"POST_PACK"}) = {}
            /\ log[r][1].status = 200 => Calls(r, {"POST_CREATE"}) = {}

\* what does hold under SpecOtherActor: a package call follows a fetch of
\* its own that was answered Exists, and a create call one answered Absent
C21_LastObservationDecides ==
    \A r \in Runs :
        /\ \A i \in Calls(r, {"POST_PACK"}) :
              i > 1 /\ log[r][i - 1].call = "GET" /\ log[r][i - 1].status = 200
        /\ \A i \in Calls(r, {"POST_CREATE"}) :
              i > 1 /\ log[r][i - 1].call = "GET" /\ log[r][i - 1].status = 403

(* ---------------- C22 ---------------- *)

\* specs of both known states under their generated name; what varies is
\* the operation, the update option and the declared options
SequentialInputs ==
    { ImageArgs(s, o, u, None, "x86_64", d) :
        s \in {"stateless", "stateful"}, o \in OperationChoices,
        u \in {"True", "False"}, d \in DeclaredChoices }

\* the same invocation made twice: the same image_args and check mode,
\* against the same control plane
InitSequential ==
    /\ node = NodeIdle
    /\ \E a \in SequentialInputs, c \in BOOLEAN :
          /\ args = [r \in {1, 2} |-> a]
          /\ check_mode = [r \in {1, 2} |-> c]
          /\ remote \in RemoteChoices(a)
    /\ image_name = [r \in {1, 2} |-> ""]
    /\ image_contents = [r \in {1, 2} |-> EmptyMap]
    /\ pc = [r \in {1, 2} |-> "start"]
    /\ gen_image = [r \in {1, 2} |-> FALSE]
    /\ todo1 = [r \in {1, 2} |-> {}]
    /\ pos2 = [r \in {1, 2} |-> 0]
    /\ log = [r \in {1, 2} |-> <<>>]
    /\ result = [r \in {1, 2} |-> [changed |-> FALSE]]

\* a run starts when the runs before it are over
Turn(r) == \A q \in Runs : q < r => Ended(q)

NextSequential ==
    \/ \E r \in Runs : Turn(r) /\ RunStart(r) /\ UNCHANGED <<node, check_mode>>
    \/ \E r \in Runs : Turn(r) /\ Exists(r) /\ UNCHANGED <<node, check_mode>>
    \/ \E r \in Runs :
          Turn(r) /\ UpdateDiffering(r) /\ UNCHANGED <<node, check_mode>>
    \/ \E r \in Runs :
          Turn(r) /\ UpdateMissing(r) /\ UNCHANGED <<node, check_mode>>
    \/ \E r \in Runs : Turn(r) /\ UpdateEnd(r) /\ UNCHANGED <<node, check_mode>>
    \/ \E r \in Runs : Turn(r) /\ Generate(r) /\ UNCHANGED <<node, check_mode>>
    \/ \E r \in Runs : Turn(r) /\ Create(r) /\ UNCHANGED <<node, check_mode>>
    \/ \E r \in Runs : Turn(r) /\ PackUp(r) /\ UNCHANGED <<node, check_mode>>
    \/ \E r \in Runs : Turn(r) /\ Finish(r) /\ UNCHANGED <<node, check_mode>>

\* run 2 follows run 1 immediately; nothing else writes to the control plane
SpecSequential == InitSequential /\ [][NextSequential]_vars

\* C22, under SpecSequential: when run 1 was asked to update, found the
\* image stored and returned its result, run 2 issues no PATCH and no
\* generate call; and when run 2's fetch is answered 200 that fetch is the
\* only request run 2 issues.
C22_SecondRunConverged ==
    UpdateRun(1) /\ pc[1] = "done" =>
        /\ Calls(2, {"PUT", "POST_GEN"}) = {}
        /\ Ended(2) /\ UpdateRun(2) => pc[2] = "done" /\ Len(log[2]) = 1

\* run 1 patched a differing and a missing field and generated; run 2
\* fetched the image and returned without another request
C22_Witness ==
    /\ UpdateRun(1) /\ pc[1] = "done"
    /\ \E k \in Patched(1) : k \in DOMAIN image_contents[1]
    /\ \E k \in Patched(1) : k \notin DOMAIN image_contents[1]
    /\ \E g \in Calls(1, {"POST_GEN"}) : log[1][g].status = 201
    /\ UpdateRun(2) /\ pc[2] = "done" /\ Len(log[2]) = 1

(* ---------------- C23 ---------------- *)

\* C23 as stated: an invocation in check mode, of the image module or of
\* the node module, issues no mutating request.
C23_CheckModeMutatesNothing ==
    /\ \A r \in Runs : check_mode[r] => Calls(r, Mutating) = {}
    /\ node.check_mode =>
          \A i \in 1..Len(node.log) : node.log[i].call # "PUT_BOOTSTATE"

\* the node module's half of C23 as stated, under SpecNode: in check
\* mode the control plane's boot pointers are left as they were
C23_NodeCheckModeKeepsBootstate ==
    node.check_mode => node.bootstate = EmptyMap

\* what check mode does change, under SpecNode: the node module then
\* reports changed = false
C23_NodeCheckModeReportsUnchanged ==
    node.pc = "done" /\ node.check_mode => ~node.result.changed

====
